---- MODULE Spec2Model ----
\* A model of the text adventure in src/src/main.rs: the World (rooms, exits,
\* locks, object lists, inventory, flags), the lexical normalizer, the command
\* interpreter and every verb handler, driven by the read loop of main().
EXTENDS Integers, Sequences, FiniteSets, TLC

VARIABLES game_over, rooms, location, inventory, found_key, panicked,
          \* a call of parse_input followed step by step: its argument, the
          \* words sanitize_list has still to visit, its result vector, and
          \* where the call stands
          raw, pending, result, norm_pc

game_vars == <<game_over, rooms, location, inventory, found_key, panicked>>

norm_vars == <<raw, pending, result, norm_pc>>

vars == <<game_vars, norm_vars>>

\* ---------------------------------------------------------------- bounds
\* Longest input line, counted in whitespace-separated tokens.
MaxLineLen == 4

\* Longest run of commands a player is given to win from any state.
MaxTurnsToWin == 14

\* ---------------------------------------------------------------- enums
RoomId == {"Mountain", "Forest", "Lake", "Outside", "Castle", "Treasury"}

Dir == {"N", "S", "E", "W", "U", "D"}

Lock == {"NONE", "Free", "Key", "Crocodile", "Password"}

Exit(dir, dest, lock) == [dir |-> dir, dest |-> dest, lock |-> lock]

PASSWORD == "piehole"

\* ---------------------------------------------------------------- ObjectList
ObjectList_add(v, name) == Append(v, name)

ObjectList_has(v, name) == \E i \in 1..Len(v) : v[i] = name

\* index of the first element equal to name, 0 when there is none
ObjectList_find(v, name) ==
    IF ObjectList_has(v, name)
    THEN CHOOSE i \in 1..Len(v) : v[i] = name /\ \A j \in 1..(i-1) : v[j] # name
    ELSE 0

\* Vec::swap_remove: the last element takes the place of the removed one
swap_remove(v, i) ==
    [k \in 1..(Len(v)-1) |-> IF k = i THEN v[Len(v)] ELSE v[k]]

\* the list after ObjectList::remove (unchanged when name is absent)
ObjectList_remove(v, name) ==
    IF ObjectList_find(v, name) = 0 THEN v
    ELSE swap_remove(v, ObjectList_find(v, name))

ObjectList_from(names) == names

\* ---------------------------------------------------------------- Room
RECURSIVE can_travel_from(_, _, _)
can_travel_from(exits, i, dir) ==
    IF i > Len(exits) THEN "NONE"
    ELSE IF exits[i].dir = dir THEN exits[i].lock
    ELSE can_travel_from(exits, i + 1, dir)

can_travel(room, dir) == can_travel_from(room.exits, 1, dir)

RECURSIVE next_room_from(_, _, _)
next_room_from(exits, i, dir) ==
    IF i > Len(exits) THEN "NONE"
    ELSE IF exits[i].dir = dir THEN exits[i].dest
    ELSE next_room_from(exits, i + 1, dir)

\* next_room whose loop starts one exit too far
next_room_skip(room, dir) == next_room_from(room.exits, 2, dir)

next_room(room, dir) == next_room_from(room.exits, 1, dir)

\* free_exit writing the wrong enum variant (Lock::NONE for Lock::Free)
free_exit_none(room, dir) ==
    [room EXCEPT !.exits =
        [i \in 1..Len(room.exits) |->
            IF room.exits[i].dir = dir
            THEN [room.exits[i] EXCEPT !.lock = "NONE"]
            ELSE room.exits[i]]]

free_exit(room, dir) ==
    [room EXCEPT !.exits =
        [i \in 1..Len(room.exits) |->
            IF room.exits[i].dir = dir
            THEN [room.exits[i] EXCEPT !.lock = "Free"]
            ELSE room.exits[i]]]

\* ---------------------------------------------------------------- World
create_rooms ==
    [r \in RoomId |->
        CASE r = "Mountain" ->
               [exits   |-> <<Exit("N", "Forest", "Free")>>,
                objects |-> <<>>]
          [] r = "Forest" ->
               [exits   |-> <<Exit("S", "Mountain", "Free"),
                              Exit("W", "Lake", "Free"),
                              Exit("E", "Outside", "Crocodile")>>,
                objects |-> ObjectList_from(<<"crocodile", "parrot">>)]
          [] r = "Lake" ->
               [exits   |-> <<Exit("E", "Forest", "Free")>>,
                objects |-> ObjectList_from(<<"steak">>)]
          [] r = "Outside" ->
               [exits   |-> <<Exit("W", "Forest", "Free"),
                              Exit("E", "Castle", "Key")>>,
                objects |-> <<>>]
          [] r = "Castle" ->
               [exits   |-> <<Exit("W", "Outside", "Free"),
                              Exit("S", "Treasury", "Password")>>,
                objects |-> ObjectList_from(<<"guard", "carrot">>)]
          [] r = "Treasury" ->
               [exits   |-> <<Exit("N", "Castle", "Free")>>,
                objects |-> ObjectList_from(<<"treasure">>)]]

World_new ==
    [game_over |-> FALSE,
     rooms     |-> create_rooms,
     location  |-> "Mountain",
     inventory |-> ObjectList_from(<<"sword">>),
     found_key |-> FALSE,
     panicked  |-> FALSE]

\* the World value held by main() in the current state
world ==
    [game_over |-> game_over,
     rooms     |-> rooms,
     location  |-> location,
     inventory |-> inventory,
     found_key |-> found_key,
     panicked  |-> panicked]

\* a failed unwrap() or assert!() ends the process
panic(w) == [w EXCEPT !.panicked = TRUE]

\* ---------------------------------------------------------------- normalizer
\* char-wise to_lowercase, on the words the input lines are drawn from
to_lowercase(word) ==
    CASE word = "GET"      -> "get"
      [] word = "Quit"     -> "quit"
      [] word = "The"      -> "the"
      [] word = "Croc"     -> "croc"
      [] word = "PIEHOLE"  -> "piehole"
      [] word = "North"    -> "north"
      [] word = "An"       -> "an"
      [] word = "TO"       -> "to"
      [] OTHER             -> word

\* sanitize_word matching the word as typed, lowercasing only what it keeps
sanitize_word_cased(word) ==
    IF word \in {"a", "an", "the", "to", "with"} THEN ""
    ELSE IF word = "croc" THEN "crocodile"
    ELSE to_lowercase(word)

sanitize_word(word) ==
    LET s == to_lowercase(word) IN
    IF s \in {"a", "an", "the", "to", "with"} THEN ""
    ELSE IF s = "croc" THEN "crocodile"
    ELSE s

RECURSIVE sanitize_list(_)
sanitize_list(words) ==
    IF words = <<>> THEN <<>>
    ELSE LET s == sanitize_word(Head(words)) IN
         IF s # "" THEN <<s>> \o sanitize_list(Tail(words))
         ELSE sanitize_list(Tail(words))

\* an input line is a sequence of words and whitespace runs (" ")
IsWord(t) == t # " "

split_whitespace(input) == SelectSeq(input, IsWord)

parse_input(input) ==
    LET words == split_whitespace(input) IN
    IF words = <<>> THEN [empty |-> TRUE, words |-> <<>>]
    ELSE [empty |-> FALSE, words |-> sanitize_list(words)]

\* words.next() through unwrap_str: the n-th word, "" when there is none
unwrap_str(words, n) == IF n <= Len(words) THEN words[n] ELSE ""

\* ---------------------------------------------------------------- handlers
\* Every handler maps the World before the command to the World after it.

\* rooms.get(&self.location): the unwrap() fails when there is no such room
has_room(w) == w.location \in DOMAIN w.rooms

current_room(w) == w.rooms[w.location]

describe_room(w) == IF has_room(w) THEN w ELSE panic(w)

\* Room::description, by its opening words
description(r) ==
    CASE r = "Mountain" -> "You are standing on a large grassy mountain."
      [] r = "Forest"   -> "You are in a forest, surrounded by dense trees and shrubs."
      [] r = "Lake"     -> "You stand on the shore of a beautiful lake, soft sand under"
      [] r = "Outside"  -> "The forest is thinning off here."
      [] r = "Castle"   -> "You are standing inside a magnificant, opulent castle."
      [] r = "Treasury" -> "Wow!  This room is full of valuable treasures."

\* the lines describe_room prints: the description, then a line per object
describe_room_output(w) ==
    <<description(w.location)>>
        \o [i \in 1..Len(current_room(w).objects) |->
               <<"There is a ", current_room(w).objects[i], " here.">>]

\* the lines cmd_look prints
cmd_look_output(w) == <<"">> \o describe_room_output(w)

cmd_help(w) == w

\* cmd_quit that also empties the player's hands
cmd_quit_reset(w) == [w EXCEPT !.game_over = TRUE, !.inventory = <<>>]

cmd_quit(w) == [w EXCEPT !.game_over = TRUE]

cmd_invent(w) == w

\* cmd_look whose listing drains the room's object list as it prints it
cmd_look_drain(w) ==
    IF has_room(w) THEN [w EXCEPT !.rooms[w.location].objects = <<>>]
    ELSE panic(w)

cmd_look(w) == describe_room(w)

DirWords == {"n", "north", "s", "south", "e", "east", "w", "west",
             "u", "up", "d", "down"}

dir_of(noun1) ==
    CASE noun1 \in {"n", "north"} -> "N"
      [] noun1 \in {"s", "south"} -> "S"
      [] noun1 \in {"e", "east"}  -> "E"
      [] noun1 \in {"w", "west"}  -> "W"
      [] noun1 \in {"u", "up"}    -> "U"
      [] noun1 \in {"d", "down"}  -> "D"

\* cmd_go without the Lock::Key arm: a locked door does not stop the player
cmd_go_nokey(w, noun1) ==
    IF noun1 = "" THEN w
    ELSE IF noun1 \notin DirWords THEN w
    ELSE IF ~has_room(w) THEN panic(w)
    ELSE LET dir  == dir_of(noun1)
             room == current_room(w)
             obst == can_travel(room, dir)
         IN  IF obst \notin {"Free", "Key"} THEN w
             ELSE LET moved == [w EXCEPT !.location = next_room(room, dir)]
                  IN  IF moved.location = "NONE" THEN panic(moved)
                      ELSE describe_room(moved)

\* cmd_go without the Lock::Crocodile arm: the player walks past the crocodile
cmd_go_nocroc(w, noun1) ==
    IF noun1 = "" THEN w
    ELSE IF noun1 \notin DirWords THEN w
    ELSE IF ~has_room(w) THEN panic(w)
    ELSE LET dir  == dir_of(noun1)
             room == current_room(w)
             obst == can_travel(room, dir)
         IN  IF obst \notin {"Free", "Crocodile"} THEN w
             ELSE LET moved == [w EXCEPT !.location = next_room(room, dir)]
                  IN  IF moved.location = "NONE" THEN panic(moved)
                      ELSE describe_room(moved)

cmd_go(w, noun1) ==
    IF noun1 = "" THEN w
    ELSE IF noun1 \notin DirWords THEN w
    ELSE IF ~has_room(w) THEN panic(w)
    ELSE LET dir  == dir_of(noun1)
             room == current_room(w)
             obst == can_travel(room, dir)
         IN  IF obst # "Free" THEN w
             ELSE LET moved == [w EXCEPT !.location = next_room(room, dir)]
                  IN  IF moved.location = "NONE" THEN panic(moved)
                      ELSE describe_room(moved)

\* cmd_drop testing the inventory with has() and never removing the object
cmd_drop_keep(w, noun1) ==
    IF noun1 = "" THEN w
    ELSE IF ~ObjectList_has(w.inventory, noun1) THEN w
    ELSE IF ~has_room(w) THEN panic(w)
    ELSE [w EXCEPT !.rooms[w.location].objects = ObjectList_add(@, noun1)]

cmd_drop(w, noun1) ==
    IF noun1 = "" THEN w
    ELSE IF ~ObjectList_has(w.inventory, noun1) THEN w
    ELSE LET dropped == [w EXCEPT !.inventory = ObjectList_remove(@, noun1)]
         IN  IF ~has_room(dropped) THEN panic(dropped)
             ELSE [dropped EXCEPT !.rooms[w.location].objects =
                                       ObjectList_add(@, noun1)]

\* cmd_get testing the room with has() and never removing the object
cmd_get_copy(w, noun1) ==
    IF noun1 \in {"", "crocodile", "parrot", "guard"} THEN w
    ELSE IF ~has_room(w) THEN panic(w)
    ELSE IF ~ObjectList_has(current_room(w).objects, noun1) THEN w
    ELSE LET taken == [w EXCEPT !.inventory = ObjectList_add(@, noun1)]
         IN  IF noun1 = "treasure"
             THEN [taken EXCEPT !.game_over = TRUE]
             ELSE taken

\* cmd_get with the win check made on the noun alone, before the transfer
cmd_get_earlywin(w, noun1) ==
    IF noun1 \in {"", "crocodile", "parrot", "guard"} THEN w
    ELSE IF ~has_room(w) THEN panic(w)
    ELSE LET checked == IF noun1 = "treasure"
                        THEN [w EXCEPT !.game_over = TRUE] ELSE w
         IN  IF ~ObjectList_has(current_room(w).objects, noun1) THEN checked
             ELSE [checked EXCEPT !.rooms[w.location].objects =
                                      ObjectList_remove(@, noun1),
                                  !.inventory = ObjectList_add(@, noun1)]

\* cmd_get without the arm that refuses the parrot
cmd_get_parrot(w, noun1) ==
    IF noun1 \in {"", "crocodile", "guard"} THEN w
    ELSE IF ~has_room(w) THEN panic(w)
    ELSE IF ~ObjectList_has(current_room(w).objects, noun1) THEN w
    ELSE LET taken ==
                 [w EXCEPT !.rooms[w.location].objects =
                               ObjectList_remove(@, noun1),
                           !.inventory = ObjectList_add(@, noun1)]
         IN  IF noun1 = "treasure"
             THEN [taken EXCEPT !.game_over = TRUE]
             ELSE taken

cmd_get(w, noun1) ==
    IF noun1 \in {"", "crocodile", "parrot", "guard"} THEN w
    ELSE IF ~has_room(w) THEN panic(w)
    ELSE IF ~ObjectList_has(current_room(w).objects, noun1) THEN w
    ELSE LET taken ==
                 [w EXCEPT !.rooms[w.location].objects =
                               ObjectList_remove(@, noun1),
                           !.inventory = ObjectList_add(@, noun1)]
         IN  IF noun1 = "treasure"
             THEN [taken EXCEPT !.game_over = TRUE]
             ELSE taken

\* cmd_give whose carrot rule also removes the recipient, as the steak rule does
cmd_give_shoo(w, noun1, noun2) ==
    IF noun1 = "" \/ noun2 = "" THEN w
    ELSE IF ~ObjectList_has(w.inventory, noun1) THEN w
    ELSE IF ~has_room(w) THEN panic(w)
    ELSE IF ~ObjectList_has(current_room(w).objects, noun2) THEN w
    ELSE IF noun1 = "carrot" /\ noun2 = "parrot"
         THEN [w EXCEPT !.inventory = ObjectList_remove(@, noun1),
                        !.rooms[w.location].objects =
                            ObjectList_remove(@, "parrot")]
    ELSE IF noun1 = "steak" /\ noun2 = "crocodile"
         THEN [w EXCEPT
                 !.inventory = ObjectList_remove(@, noun1),
                 !.rooms[w.location] =
                     free_exit([@ EXCEPT !.objects =
                                    ObjectList_remove(@, "crocodile")], "E")]
    ELSE w

\* cmd_give whose steak rule tests the recipient only: the crocodile eats anything
cmd_give_any(w, noun1, noun2) ==
    IF noun1 = "" \/ noun2 = "" THEN w
    ELSE IF ~ObjectList_has(w.inventory, noun1) THEN w
    ELSE IF ~has_room(w) THEN panic(w)
    ELSE IF ~ObjectList_has(current_room(w).objects, noun2) THEN w
    ELSE IF noun1 = "carrot" /\ noun2 = "parrot"
         THEN [w EXCEPT !.inventory = ObjectList_remove(@, noun1)]
    ELSE IF noun2 = "crocodile"
         THEN [w EXCEPT
                 !.inventory = ObjectList_remove(@, noun1),
                 !.rooms[w.location] =
                     free_exit([@ EXCEPT !.objects =
                                    ObjectList_remove(@, "crocodile")], "E")]
    ELSE w

\* cmd_give taking the item out of the inventory before it looks for the
\* recipient
cmd_give_hasty(w, noun1, noun2) ==
    IF noun1 = "" \/ noun2 = "" THEN w
    ELSE IF ~ObjectList_has(w.inventory, noun1) THEN w
    ELSE LET given == [w EXCEPT !.inventory = ObjectList_remove(@, noun1)]
         IN  IF ~has_room(w) THEN panic(given)
             ELSE IF ~ObjectList_has(current_room(w).objects, noun2) THEN given
             ELSE IF noun1 = "carrot" /\ noun2 = "parrot" THEN given
             ELSE IF noun1 = "steak" /\ noun2 = "crocodile"
                  THEN [given EXCEPT
                          !.rooms[w.location] =
                              free_exit([@ EXCEPT !.objects =
                                  ObjectList_remove(@, "crocodile")], "E")]
             ELSE w

\* cmd_give whose carrot rule tests the recipient only: the parrot eats anything
cmd_give_greedy(w, noun1, noun2) ==
    IF noun1 = "" \/ noun2 = "" THEN w
    ELSE IF ~ObjectList_has(w.inventory, noun1) THEN w
    ELSE IF ~has_room(w) THEN panic(w)
    ELSE IF ~ObjectList_has(current_room(w).objects, noun2) THEN w
    ELSE IF noun2 = "parrot"
         THEN [w EXCEPT !.inventory = ObjectList_remove(@, noun1)]
    ELSE IF noun1 = "steak" /\ noun2 = "crocodile"
         THEN [w EXCEPT
                 !.inventory = ObjectList_remove(@, noun1),
                 !.rooms[w.location] =
                     free_exit([@ EXCEPT !.objects =
                                    ObjectList_remove(@, "crocodile")], "E")]
    ELSE w

\* cmd_give whose steak rule frees the exit and leaves the crocodile where it is
cmd_give_stay(w, noun1, noun2) ==
    IF noun1 = "" \/ noun2 = "" THEN w
    ELSE IF ~ObjectList_has(w.inventory, noun1) THEN w
    ELSE IF ~has_room(w) THEN panic(w)
    ELSE IF ~ObjectList_has(current_room(w).objects, noun2) THEN w
    ELSE IF noun1 = "carrot" /\ noun2 = "parrot"
         THEN [w EXCEPT !.inventory = ObjectList_remove(@, noun1)]
    ELSE IF noun1 = "steak" /\ noun2 = "crocodile"
         THEN [w EXCEPT
                 !.inventory = ObjectList_remove(@, noun1),
                 !.rooms[w.location] = free_exit(@, "E")]
    ELSE w

cmd_give(w, noun1, noun2) ==
    IF noun1 = "" \/ noun2 = "" THEN w
    ELSE IF ~ObjectList_has(w.inventory, noun1) THEN w
    ELSE IF ~has_room(w) THEN panic(w)
    ELSE IF ~ObjectList_has(current_room(w).objects, noun2) THEN w
    ELSE IF noun1 = "carrot" /\ noun2 = "parrot"
         THEN [w EXCEPT !.inventory = ObjectList_remove(@, noun1)]
    ELSE IF noun1 = "steak" /\ noun2 = "crocodile"
         THEN [w EXCEPT
                 !.inventory = ObjectList_remove(@, noun1),
                 !.rooms[w.location] =
                     free_exit([@ EXCEPT !.objects =
                                    ObjectList_remove(@, "crocodile")], "E")]
    ELSE w

cmd_feed(w, noun1, noun2) ==
    IF noun1 = "" \/ noun2 = "" THEN w
    ELSE cmd_give(w, noun1, noun2)

cmd_attack(w, noun1) == w

\* cmd_open without the test for the key
cmd_open_nokey(w, noun1) ==
    IF noun1 = "" THEN w
    ELSE IF noun1 = "door" /\ w.location = "Outside"
         THEN [w EXCEPT
                 !.inventory = ObjectList_remove(@, "key"),
                 !.rooms[w.location] = free_exit(@, "E")]
    ELSE w

\* cmd_open without the test of the location: any room with the key will do
cmd_open_anywhere(w, noun1) ==
    IF noun1 = "" THEN w
    ELSE IF noun1 = "door"
         THEN IF ~ObjectList_has(w.inventory, "key") THEN w
              ELSE IF ~has_room(w) THEN panic(w)
              ELSE [w EXCEPT
                      !.inventory = ObjectList_remove(@, "key"),
                      !.rooms[w.location] = free_exit(@, "E")]
    ELSE w

cmd_open(w, noun1) ==
    IF noun1 = "" THEN w
    ELSE IF noun1 = "door" /\ w.location = "Outside"
         THEN IF ~ObjectList_has(w.inventory, "key") THEN w
              ELSE [w EXCEPT
                      !.inventory = ObjectList_remove(@, "key"),
                      !.rooms[w.location] = free_exit(@, "E")]
    ELSE w

\* cmd_swim without the found_key test: every dive brings up a key
cmd_swim_again(w) ==
    IF w.location = "Lake"
    THEN [w EXCEPT !.found_key = TRUE,
                   !.inventory = ObjectList_add(@, "key")]
    ELSE w

cmd_swim(w) ==
    IF w.location = "Lake"
    THEN IF w.found_key THEN w
         ELSE [w EXCEPT !.found_key = TRUE,
                        !.inventory = ObjectList_add(@, "key")]
    ELSE w

\* cmd_say without the test of the location: the guard hears it from anywhere
cmd_say_anywhere(w, noun1) ==
    IF noun1 = "" THEN w
    ELSE IF noun1 = PASSWORD
         THEN [w EXCEPT !.rooms["Castle"] = free_exit(@, "S")]
    ELSE w

cmd_say(w, noun1) ==
    IF noun1 = "" THEN w
    ELSE IF noun1 = PASSWORD /\ w.location = "Castle"
         THEN [w EXCEPT !.rooms[w.location] = free_exit(@, "S")]
    ELSE w

cmd_use(w, noun1) ==
    IF noun1 = "" THEN w
    ELSE IF ~ObjectList_has(w.inventory, noun1) THEN w
    ELSE IF noun1 = "key" THEN cmd_open(w, "door")
    ELSE w

\* ---------------------------------------------------------------- interpreter
\* the arm of the match in parse_command that a verb selects
handler_of(cmd) ==
    CASE cmd = ""                                         -> "huh"
      [] cmd = "help"                                     -> "cmd_help"
      [] cmd \in {"exit", "quit", "q"}                    -> "cmd_quit"
      [] cmd \in {"i", "inv", "invent", "inventory"}      -> "cmd_invent"
      [] cmd \in {"look", "l"}                            -> "cmd_look"
      [] cmd \in {"go", "walk"}                           -> "cmd_go"
      [] cmd \in DirWords                                 -> "cmd_go_dir"
      [] cmd = "drop"                                     -> "cmd_drop"
      [] cmd \in {"get", "take"}                          -> "cmd_get"
      [] cmd \in {"give", "offer"}                        -> "cmd_give"
      [] cmd = "feed"                                     -> "cmd_feed"
      [] cmd \in {"kill", "attack", "hit", "fight"}       -> "cmd_attack"
      [] cmd \in {"open", "unlock"}                       -> "cmd_open"
      [] cmd \in {"swim", "dive"}                         -> "cmd_swim"
      [] cmd \in {"say", "speak", "tell"}                 -> "cmd_say"
      [] cmd = PASSWORD                                   -> "cmd_say_password"
      [] cmd \in {"use", "apply"}                         -> "cmd_use"
      [] OTHER                                            -> "unknown"

parse_command(w, words) ==
    LET cmd   == unwrap_str(words, 1)
        noun1 == unwrap_str(words, 2)
        noun2 == unwrap_str(words, 3)
        h     == handler_of(cmd)
    IN  CASE h = "huh"              -> w
          [] h = "cmd_help"         -> cmd_help(w)
          [] h = "cmd_quit"         -> cmd_quit(w)
          [] h = "cmd_invent"       -> cmd_invent(w)
          [] h = "cmd_look"         -> cmd_look(w)
          [] h = "cmd_go"           -> cmd_go(w, noun1)
          [] h = "cmd_go_dir"       -> cmd_go(w, cmd)
          [] h = "cmd_drop"         -> cmd_drop(w, noun1)
          [] h = "cmd_get"          -> cmd_get(w, noun1)
          [] h = "cmd_give"         -> cmd_give(w, noun1, noun2)
          [] h = "cmd_feed"         -> cmd_feed(w, noun1, noun2)
          [] h = "cmd_attack"       -> cmd_attack(w, noun1)
          [] h = "cmd_open"         -> cmd_open(w, noun1)
          [] h = "cmd_swim"         -> cmd_swim(w)
          [] h = "cmd_say"          -> cmd_say(w, noun1)
          [] h = "cmd_say_password" -> cmd_say(w, PASSWORD)
          [] h = "cmd_use"          -> cmd_use(w, noun1)
          [] OTHER                  -> w

\* one pass of the loop body of main(): read a line, parse it, resolve it
turn(w, input) ==
    LET parse == parse_input(input) IN
    IF parse.empty THEN w ELSE parse_command(w, parse.words)

\* ---------------------------------------------------------------- input lines
\* The lines typed at the prompt, as sequences of words and whitespace runs.
Directions == DirWords \cup {"sideways"}

Things == {"sword", "steak", "carrot", "key", "treasure", "lamp",
           "crocodile", "parrot", "guard"}

Items == {"sword", "steak", "carrot", "key"}

Recipients == {"crocodile", "parrot", "guard", "steak", "Croc"}

BareLines ==
    {<<v>> : v \in {"help", "exit", "quit", "q", "i", "inv", "invent",
                    "inventory", "look", "l", "go", "walk", "drop", "get",
                    "take", "give", "offer", "feed", "kill", "attack", "hit",
                    "fight", "open", "unlock", "swim", "dive", "say", "speak",
                    "tell", "use", "apply", "xyzzy", "the", "Quit",
                    "PIEHOLE", "North", PASSWORD} \cup DirWords}

GoLines ==
    {<<v, d>> : v \in {"go", "walk"}, d \in Directions}
    \cup {<<"go", "to", "North">>, <<"go", " ", "e">>}

DropLines == {<<"drop", t>> : t \in Things} \cup {<<"drop", "the", "steak">>}

GetLines ==
    {<<v, t>> : v \in {"get", "take"}, t \in Things}
    \cup {<<"GET", "The", "treasure">>, <<"get", "Croc">>}

GiveLines ==
    {<<v, i, r>> : v \in {"give", "offer", "feed"}, i \in Items, r \in Recipients}
    \cup {<<v, i>> : v \in {"give", "feed"}, i \in {"steak"}}
    \cup {<<v, i, "to", r>> : v \in {"give", "feed"},
                              i \in {"steak", "carrot"},
                              r \in {"crocodile", "parrot"}}
    \cup {<<"give", "the", i, "to", r>> : i \in {"steak", "carrot"},
                                          r \in {"crocodile", "parrot"}}

AttackLines ==
    {<<v, t>> : v \in {"kill", "attack", "hit", "fight"},
                t \in {"crocodile", "guard", "parrot"}}

OpenLines ==
    {<<v, t>> : v \in {"open", "unlock"}, t \in {"door", "key", "sword", "window"}}
    \cup {<<"open", "the", "door">>}

SayLines ==
    {<<v, t>> : v \in {"say", "speak", "tell"},
                t \in {PASSWORD, "PIEHOLE", "hello"}}
    \cup {<<PASSWORD, "hello">>, <<"say", "the", PASSWORD>>}

UseLines ==
    {<<v, t>> : v \in {"use", "apply"}, t \in {"key", "sword", "steak", "door"}}
    \cup {<<"use", "the", "key">>}

BlankLines == {<<>>, <<" ">>, <<" ", " ">>, <<"the", "a">>, <<" ", "look", " ">>}

AllLines ==
    BareLines \cup GoLines \cup DropLines \cup GetLines \cup GiveLines
    \cup AttackLines \cup OpenLines \cup SayLines \cup UseLines \cup BlankLines

Lines == {l \in AllLines : Len(l) <= MaxLineLen}

\* the verb a line resolves to, and the match arm it selects
verb_of(input) == unwrap_str(parse_input(input).words, 1)

arm_of(input) ==
    IF parse_input(input).empty THEN "empty" ELSE handler_of(verb_of(input))

Arms == {arm_of(l) : l \in Lines}

LinesByArm == [arm \in Arms |-> {l \in Lines : arm_of(l) = arm}]

LinesOf(arm) == IF arm \in Arms THEN LinesByArm[arm] ELSE {}

\* ---------------------------------------------------------------- main loop
Init ==
    /\ game_over = World_new.game_over
    /\ rooms     = World_new.rooms
    /\ location  = World_new.location
    /\ inventory = World_new.inventory
    /\ found_key = World_new.found_key
    /\ panicked  = World_new.panicked
    /\ raw = <<>>
    /\ pending = <<>>
    /\ result = <<>>
    /\ norm_pc = "idle"

\* while ! world.game_over { ... }: the loop runs until the game is over
\* (or the process has died)
\* a loop that does not test game_over
Running_forever == ~panicked

Running == ~game_over /\ ~panicked

\* the loop body: the line is parsed and resolved against the World
Resolve(input) ==
    LET w == turn(world, input) IN
        /\ game_over' = w.game_over
        /\ rooms'     = w.rooms
        /\ location'  = w.location
        /\ inventory' = w.inventory
        /\ found_key' = w.found_key
        /\ panicked'  = w.panicked
        /\ UNCHANGED norm_vars

\* One action for each arm of the match in main() and in parse_command.
Blank ==
    /\ Running
    /\ \E input \in LinesOf("empty") : Resolve(input)

Huh ==
    /\ Running
    /\ \E input \in LinesOf("huh") : Resolve(input)

Help ==
    /\ Running
    /\ \E input \in LinesOf("cmd_help") : Resolve(input)

Quit ==
    /\ Running
    /\ \E input \in LinesOf("cmd_quit") : Resolve(input)

Invent ==
    /\ Running
    /\ \E input \in LinesOf("cmd_invent") : Resolve(input)

Look ==
    /\ Running
    /\ \E input \in LinesOf("cmd_look") : Resolve(input)

Go ==
    /\ Running
    /\ \E input \in LinesOf("cmd_go") : Resolve(input)

GoDir ==
    /\ Running
    /\ \E input \in LinesOf("cmd_go_dir") : Resolve(input)

Drop ==
    /\ Running
    /\ \E input \in LinesOf("cmd_drop") : Resolve(input)

Get ==
    /\ Running
    /\ \E input \in LinesOf("cmd_get") : Resolve(input)

Give ==
    /\ Running
    /\ \E input \in LinesOf("cmd_give") : Resolve(input)

Feed ==
    /\ Running
    /\ \E input \in LinesOf("cmd_feed") : Resolve(input)

Attack ==
    /\ Running
    /\ \E input \in LinesOf("cmd_attack") : Resolve(input)

Open ==
    /\ Running
    /\ \E input \in LinesOf("cmd_open") : Resolve(input)

Swim ==
    /\ Running
    /\ \E input \in LinesOf("cmd_swim") : Resolve(input)

Say ==
    /\ Running
    /\ \E input \in LinesOf("cmd_say") : Resolve(input)

SayPassword ==
    /\ Running
    /\ \E input \in LinesOf("cmd_say_password") : Resolve(input)

Use ==
    /\ Running
    /\ \E input \in LinesOf("cmd_use") : Resolve(input)

Unknown ==
    /\ Running
    /\ \E input \in LinesOf("unknown") : Resolve(input)

Next ==
    \/ Blank \/ Huh \/ Help \/ Quit \/ Invent \/ Look \/ Go \/ GoDir \/ Drop
    \/ Get \/ Give \/ Feed \/ Attack \/ Open \/ Swim \/ Say \/ SayPassword
    \/ Use \/ Unknown

Spec == Init /\ [][Next]_vars

\* ---------------------------------------------------------------- normalizer run
\* parse_input on its own: one call on an arbitrary line, sanitize_list
\* followed one word at a time.
RawWords == {" ", "a", "An", "The", "TO", "with", "Croc", "steak"}

RECURSIVE SeqsUpTo(_, _)
SeqsUpTo(S, n) ==
    IF n = 0 THEN {<<>>}
    ELSE LET shorter == SeqsUpTo(S, n - 1) IN
         shorter \cup {Append(q, x) : q \in {p \in shorter : Len(p) = n - 1},
                                      x \in S}

RawLines == SeqsUpTo(RawWords, MaxLineLen)

InitNorm ==
    /\ game_over = World_new.game_over
    /\ rooms     = World_new.rooms
    /\ location  = World_new.location
    /\ inventory = World_new.inventory
    /\ found_key = World_new.found_key
    /\ panicked  = World_new.panicked
    /\ raw \in RawLines
    /\ pending = <<>>
    /\ result = <<>>
    /\ norm_pc = "parse_input"

\* let words = input.split_whitespace().collect(), and no word at all
SplitEmpty ==
    /\ norm_pc = "parse_input"
    /\ split_whitespace(raw) = <<>>
    /\ norm_pc' = "Empty"
    /\ UNCHANGED <<raw, pending, result, game_vars>>

\* ... or some words, handed to sanitize_list
SplitWords ==
    /\ norm_pc = "parse_input"
    /\ split_whitespace(raw) # <<>>
    /\ pending' = split_whitespace(raw)
    /\ norm_pc' = "sanitize_list"
    /\ UNCHANGED <<raw, result, game_vars>>

\* one pass of the loop of sanitize_list
SanitizeNext ==
    /\ norm_pc = "sanitize_list"
    /\ pending # <<>>
    /\ LET s == sanitize_word(Head(pending)) IN
         result' = IF s # "" THEN Append(result, s) ELSE result
    /\ pending' = Tail(pending)
    /\ UNCHANGED <<raw, norm_pc, game_vars>>

\* the loop is over: Parse::Words(words)
ReturnWords ==
    /\ norm_pc = "sanitize_list"
    /\ pending = <<>>
    /\ norm_pc' = "Words"
    /\ UNCHANGED <<raw, pending, result, game_vars>>

NextNorm == SplitEmpty \/ SplitWords \/ SanitizeNext \/ ReturnWords

SpecNorm == InitNorm /\ [][NextNorm]_vars

TypeOK ==
    /\ game_over \in BOOLEAN
    /\ found_key \in BOOLEAN
    /\ panicked \in BOOLEAN
    /\ location \in RoomId \cup {"NONE"}
    /\ DOMAIN rooms = RoomId

\* ---------------------------------------------------------------- properties
\* Vocabulary of the properties.

RoomOrder == <<"Mountain", "Forest", "Lake", "Outside", "Castle", "Treasury">>

\* every object name held anywhere in w, container after container
Holdings(w) ==
    w.inventory \o w.rooms[RoomOrder[1]].objects \o w.rooms[RoomOrder[2]].objects
                \o w.rooms[RoomOrder[3]].objects \o w.rooms[RoomOrder[4]].objects
                \o w.rooms[RoomOrder[5]].objects \o w.rooms[RoomOrder[6]].objects

Total(w) == Len(Holdings(w))

Held(w, name) == ObjectList_has(Holdings(w), name)

Carried(w, name) == ObjectList_has(w.inventory, name)

Present(w, name) ==
    has_room(w) /\ ObjectList_has(current_room(w).objects, name)

\* the set of the names in a list
Names(v) == {v[i] : i \in 1..Len(v)}

\* the words of a line after normalization
words_of(input) == parse_input(input).words

noun1_of(input) == unwrap_str(words_of(input), 2)

noun2_of(input) == unwrap_str(words_of(input), 3)

\* the lock of the exit of room r in direction dir
LockOf(rs, r, dir) == can_travel(rs[r], dir)

\* C1: once an exit's lock is Free it is Free after every command, and a
\* command that changes a lock changes it to Free (no exit is added or removed).
C1_MonotonicUnlocking ==
    [][\A r \in RoomId :
         /\ Len(rooms'[r].exits) = Len(rooms[r].exits)
         /\ \A i \in 1..Len(rooms[r].exits) :
              /\ rooms[r].exits[i].lock = "Free"
                     => rooms'[r].exits[i].lock = "Free"
              /\ rooms'[r].exits[i].lock # rooms[r].exits[i].lock
                     => rooms'[r].exits[i].lock = "Free"]_vars

\* all three exits that start blocked have been cleared and play goes on
C1_Witness ==
    /\ LockOf(create_rooms, "Forest", "E") = "Crocodile"
    /\ LockOf(rooms, "Forest", "E") = "Free"
    /\ LockOf(rooms, "Outside", "E") = "Free"
    /\ LockOf(rooms, "Castle", "S") = "Free"
    /\ location = "Forest"
    /\ ~game_over

\* C2: no object name occurs twice across the inventory and the six rooms.
C2_ExactlyOneOwner ==
    \A i, j \in 1..Total(world) :
        i # j => Holdings(world)[i] # Holdings(world)[j]

\* the key was found by swimming and dropped, the steak was taken
C2_Witness ==
    /\ found_key
    /\ ObjectList_has(rooms["Forest"].objects, "key")
    /\ Carried(world, "steak")
    /\ ~Carried(world, "sword")

\* C3 as stated: get, drop, give and feed all keep the number of objects held.
C3_CountPreservedByAll ==
    Running =>
        \A input \in LinesOf("cmd_get") \cup LinesOf("cmd_drop")
                     \cup LinesOf("cmd_give") \cup LinesOf("cmd_feed") :
            Total(turn(world, input)) = Total(world)

\* the objects a give/feed of noun1 to noun2 takes out of the world
Consumed(w, noun1, noun2) ==
    IF Carried(w, noun1) /\ Present(w, noun2)
    THEN IF noun1 = "carrot" /\ noun2 = "parrot" THEN 1
         ELSE IF noun1 = "steak" /\ noun2 = "crocodile" THEN 2
         ELSE 0
    ELSE 0

\* C3 (amended): get and drop keep the number of objects held; give and feed
\* keep it except that carrot-to-parrot lowers it by one (the carrot) and
\* steak-to-crocodile lowers it by two (the steak and the crocodile).
C3_CountPreserved ==
    Running =>
        /\ \A input \in LinesOf("cmd_get") \cup LinesOf("cmd_drop") :
               Total(turn(world, input)) = Total(world)
        /\ \A input \in LinesOf("cmd_give") \cup LinesOf("cmd_feed") :
               Total(turn(world, input)) =
                   Total(world)
                       - Consumed(world, noun1_of(input), noun2_of(input))

\* objects were taken and dropped, and both give rules have consumed theirs
C3_Witness ==
    /\ Total(world) = Total(World_new) - 3
    /\ found_key
    /\ ~Held(world, "carrot")
    /\ ~Held(world, "crocodile")
    /\ ObjectList_has(rooms["Castle"].objects, "sword")

\* ---- frame vocabulary: what a command left alone between w and w2
SameFlags(w, w2) ==
    /\ w2.game_over = w.game_over
    /\ w2.found_key = w.found_key
    /\ w2.panicked  = w.panicked

SameObjectsExcept(w, w2, r0) ==
    \A r \in RoomId \ {r0} : w2.rooms[r].objects = w.rooms[r].objects

\* every exit keeps its direction and destination, and every exit other than
\* the one of room r0 in direction d0 keeps its lock
SameExitsExcept(w, w2, r0, d0) ==
    \A r \in RoomId :
        /\ Len(w2.rooms[r].exits) = Len(w.rooms[r].exits)
        /\ \A i \in 1..Len(w.rooms[r].exits) :
             /\ w2.rooms[r].exits[i].dir  = w.rooms[r].exits[i].dir
             /\ w2.rooms[r].exits[i].dest = w.rooms[r].exits[i].dest
             /\ (r # r0 \/ w.rooms[r].exits[i].dir # d0)
                    => w2.rooms[r].exits[i].lock = w.rooms[r].exits[i].lock

\* list v2 is list v less its one occurrence of name
Removed(v, v2, name) ==
    /\ name \in Names(v)
    /\ Names(v2) = Names(v) \ {name}
    /\ Len(v2) = Len(v) - 1

\* C4: go with a direction word moves the player exactly when the current
\* room's exit in that direction is Free, to that exit's destination, and
\* otherwise changes nothing; a bare direction word does what go/walk does.
C4_GoIffFree ==
    Running =>
        \A d \in DirWords :
            LET exits == current_room(world).exits
                free  == {i \in 1..Len(exits) :
                              exits[i].dir = dir_of(d) /\ exits[i].lock = "Free"}
                w2    == turn(world, <<"go", d>>)
            IN  /\ IF free # {}
                   THEN /\ \E i \in free :
                              w2 = [world EXCEPT !.location = exits[i].dest]
                        /\ w2.location # location
                   ELSE w2 = world
                /\ turn(world, <<d>>) = w2
                /\ turn(world, <<"walk", d>>) = w2

\* the player walked to the Forest and stands before the blocked east exit
C4_Witness ==
    /\ location = "Forest"
    /\ LockOf(rooms, "Forest", "E") = "Crocodile"
    /\ LockOf(rooms, "Forest", "W") = "Free"
    /\ ~game_over

\* C5: get/take treasure with the treasure in the current room puts it in the
\* inventory and ends the game; with the treasure elsewhere it changes nothing.
C5_TakeTreasureWins ==
    Running =>
        \A input \in {l \in LinesOf("cmd_get") : noun1_of(l) = "treasure"} :
            LET w2 == turn(world, input) IN
            IF Present(world, "treasure")
            THEN /\ Carried(w2, "treasure")
                 /\ ~Present(w2, "treasure")
                 /\ w2.game_over
            ELSE w2 = world

\* the game was won: the treasure was taken in the Treasury
C5_Witness ==
    /\ game_over
    /\ Carried(world, "treasure")
    /\ location = "Treasury"

\* C6: quit, exit and q set game_over and change nothing else.
C6_QuitFrame ==
    Running =>
        \A input \in LinesOf("cmd_quit") :
            LET w2 == turn(world, input) IN
            /\ w2.game_over
            /\ w2.location  = location
            /\ w2.inventory = inventory
            /\ w2.rooms     = rooms
            /\ w2.found_key = found_key
            /\ w2.panicked  = panicked

\* the player quit away from the start, hands not empty, the game not won
C6_Witness ==
    /\ game_over
    /\ ~Held(world, "crocodile")
    /\ Present(world, "treasure")
    /\ Len(inventory) = 2

\* the one circumstance in which open/use acts: open/unlock door or use/apply
\* key, at Outside, the key carried, Outside's east exit locked by Key
Unlocks(w, input) ==
    /\ \/ arm_of(input) = "cmd_open" /\ noun1_of(input) = "door"
       \/ arm_of(input) = "cmd_use"  /\ noun1_of(input) = "key"
    /\ w.location = "Outside"
    /\ Carried(w, "key")
    /\ LockOf(w.rooms, "Outside", "E") = "Key"

\* C7: in that circumstance open/use takes the key out of the inventory and
\* sets Outside's east exit to Free, leaving all else alone; in every other
\* circumstance open/use changes nothing.
C7_OpenOnlyWithKey ==
    Running =>
        \A input \in LinesOf("cmd_open") \cup LinesOf("cmd_use") :
            LET w2 == turn(world, input) IN
            IF Unlocks(world, input)
            THEN /\ Removed(inventory, w2.inventory, "key")
                 /\ LockOf(w2.rooms, "Outside", "E") = "Free"
                 /\ SameExitsExcept(world, w2, "Outside", "E")
                 /\ SameObjectsExcept(world, w2, "NONE")
                 /\ SameFlags(world, w2)
                 /\ w2.location = location
            ELSE w2 = world

\* the door was unlocked with the key found in the lake, and the key is gone
C7_Witness ==
    /\ found_key
    /\ ~Held(world, "key")
    /\ LockOf(rooms, "Outside", "E") = "Free"
    /\ location = "Outside"
    /\ ~game_over

\* C8: give/offer/feed carrot to parrot, the carrot carried and the parrot in
\* the room, removes the carrot from the inventory and changes nothing else.
C8_CarrotToParrot ==
    Running =>
        \A input \in {l \in LinesOf("cmd_give") \cup LinesOf("cmd_feed") :
                          noun1_of(l) = "carrot" /\ noun2_of(l) = "parrot"} :
            (Carried(world, "carrot") /\ Present(world, "parrot")) =>
                LET w2 == turn(world, input) IN
                /\ Removed(inventory, w2.inventory, "carrot")
                /\ w2.rooms = rooms
                /\ w2.location = location
                /\ SameFlags(world, w2)

\* the carrot was fed to the parrot: it is nowhere, the parrot is still here
C8_Witness ==
    /\ ~Held(world, "carrot")
    /\ location = "Forest"
    /\ Present(world, "parrot")
    /\ ~game_over

\* C9: give/offer/feed steak to crocodile, the steak carried and the crocodile
\* in the room, removes the steak from the inventory and the crocodile from
\* the room and sets that room's east exit to Free; every pair other than
\* that one and (carrot, parrot) changes nothing.
C9_GiveRuleTable ==
    Running =>
        \A input \in LinesOf("cmd_give") \cup LinesOf("cmd_feed") :
            LET w2    == turn(world, input)
                noun1 == noun1_of(input)
                noun2 == noun2_of(input)
            IN  IF noun1 = "steak" /\ noun2 = "crocodile"
                THEN IF Carried(world, "steak") /\ Present(world, "crocodile")
                     THEN /\ Removed(inventory, w2.inventory, "steak")
                          /\ Removed(rooms[location].objects,
                                     w2.rooms[location].objects, "crocodile")
                          /\ LockOf(w2.rooms, location, "E") = "Free"
                          /\ SameExitsExcept(world, w2, location, "E")
                          /\ SameObjectsExcept(world, w2, location)
                          /\ SameFlags(world, w2)
                          /\ w2.location = location
                     ELSE w2 = world
                ELSE IF noun1 = "carrot" /\ noun2 = "parrot"
                THEN TRUE
                ELSE w2 = world

\* the crocodile took the steak and left; the player, sword in hand, stands
\* by the parrot, a pair outside the table
C9_Witness ==
    /\ ~Held(world, "crocodile")
    /\ ~Held(world, "steak")
    /\ LockOf(rooms, "Forest", "E") = "Free"
    /\ location = "Forest"
    /\ Carried(world, "sword")
    /\ Present(world, "parrot")
    /\ LockOf(rooms, "Outside", "E") = "Key"

\* the World after speaking the password in state w
Spoken(w) ==
    IF w.location = "Castle"
    THEN [w EXCEPT !.rooms["Castle"].exits =
             [i \in 1..Len(@) |->
                 IF @[i].dir = "S" THEN [@[i] EXCEPT !.lock = "Free"] ELSE @[i]]]
    ELSE w

\* C10: say/speak/tell piehole and the bare word piehole do the same thing in
\* every state: at the Castle they set the Castle's south exit to Free and
\* change nothing else, anywhere else they change nothing; any other phrase
\* changes nothing.
C10_SayLocationGated ==
    Running =>
        /\ \A input \in LinesOf("cmd_say") \cup LinesOf("cmd_say_password") :
               LET w2 == turn(world, input) IN
               IF arm_of(input) = "cmd_say_password" \/ noun1_of(input) = PASSWORD
               THEN /\ w2 = Spoken(world)
                    /\ w2 = turn(world, <<PASSWORD>>)
                    /\ (LockOf(w2.rooms, "Castle", "S") # LockOf(rooms, "Castle", "S"))
                           => location = "Castle"
                    /\ location = "Castle"
                           => LockOf(w2.rooms, "Castle", "S") = "Free"
               ELSE w2 = world
        /\ \A v \in {"say", "speak", "tell"} :
               turn(world, <<v, PASSWORD>>) = turn(world, <<PASSWORD>>)

\* the password was spoken at the Castle: the guard lets the player through
C10_Witness ==
    /\ LockOf(rooms, "Castle", "S") = "Free"
    /\ LockOf(create_rooms, "Castle", "S") = "Password"
    /\ location = "Castle"
    /\ ~game_over

\* the number of occurrences of name in list v
Occurrences(v, name) == Cardinality({i \in 1..Len(v) : v[i] = name})

\* C11: swim/dive adds the key to the inventory and sets found_key only at the
\* Lake with found_key false; any other swim changes nothing.  At most one key
\* is held anywhere, and none while found_key is false.
C11_OneShotDiscovery ==
    /\ Occurrences(Holdings(world), "key") <= 1
    /\ ~found_key => ~Held(world, "key")
    /\ Running =>
         \A input \in LinesOf("cmd_swim") :
             LET w2 == turn(world, input) IN
             IF location = "Lake" /\ ~found_key
             THEN /\ w2.found_key
                  /\ Names(w2.inventory) = Names(inventory) \cup {"key"}
                  /\ Len(w2.inventory) = Len(inventory) + 1
                  /\ w2.rooms = rooms
                  /\ w2.location = location
                  /\ w2.game_over = game_over
                  /\ w2.panicked = panicked
             ELSE w2 = world

\* the key was found and left on the shore: the next swim here is a repeat
C11_Witness ==
    /\ found_key
    /\ location = "Lake"
    /\ ObjectList_has(rooms["Lake"].objects, "key")
    /\ ~game_over

Creatures == {"crocodile", "parrot", "guard"}

\* C12: get/take of crocodile, parrot or guard changes nothing, present or
\* not; none of the three is ever in the inventory.
C12_CreaturesNotTaken ==
    /\ \A c \in Creatures : ~Carried(world, c)
    /\ Running =>
         \A input \in {l \in LinesOf("cmd_get") : noun1_of(l) \in Creatures} :
             turn(world, input) = world

\* the player, who did pick up the carrot, stands by the guard
C12_Witness ==
    /\ location = "Castle"
    /\ Present(world, "guard")
    /\ Carried(world, "carrot")
    /\ ~game_over

\* the turns that C13 lists as rejected
Rejected(w, input) ==
    LET arm   == arm_of(input)
        noun1 == noun1_of(input)
        noun2 == noun2_of(input)
    IN  \/ arm \in {"empty", "huh", "unknown"}
        \/ arm \in {"cmd_go", "cmd_drop", "cmd_get", "cmd_give", "cmd_feed",
                    "cmd_attack", "cmd_open", "cmd_say", "cmd_use"}
             /\ noun1 = ""
        \/ arm \in {"cmd_give", "cmd_feed"} /\ noun2 = ""
        \/ arm = "cmd_go" /\ noun1 \notin DirWords
        \/ arm \in {"cmd_drop", "cmd_give", "cmd_feed", "cmd_use"}
             /\ ~Carried(w, noun1)
        \/ arm = "cmd_get" /\ ~Present(w, noun1)
        \/ arm \in {"cmd_give", "cmd_feed"} /\ ~Present(w, noun2)

\* C13: a rejected turn leaves the whole World as it was.
C13_RejectedTurnsNoOp ==
    Running =>
        \A input \in Lines :
            Rejected(world, input) => turn(world, input) = world

\* the player carries the steak and the key, far from any recipient for them
C13_Witness ==
    /\ location = "Mountain"
    /\ Carried(world, "steak")
    /\ Carried(world, "key")
    /\ ~Carried(world, "sword")
    /\ ~game_over

\* C14: look, inventory, help and attack change nothing, so that a second
\* look prints what the first one printed.
C14_LookIdempotent ==
    Running =>
        /\ \A input \in LinesOf("cmd_look") \cup LinesOf("cmd_invent")
                        \cup LinesOf("cmd_help") \cup LinesOf("cmd_attack") :
               turn(world, input) = world
        /\ \A input \in LinesOf("cmd_look") :
               /\ cmd_look_output(turn(world, input)) = cmd_look_output(world)
               /\ Len(cmd_look_output(world))
                      = 2 + Len(rooms[location].objects)

\* the player looks at the shore, where the sword lies in place of the steak
C14_Witness ==
    /\ location = "Lake"
    /\ Present(world, "sword")
    /\ ~Present(world, "steak")
    /\ ~game_over

Fillers == {"a", "an", "the", "to", "with"}

NotFiller(t) == to_lowercase(t) \notin Fillers

\* the tokens of words that are not fillers, in their order, each lowercased
\* and croc written out
Normalized(words) ==
    LET kept == SelectSeq(words, NotFiller) IN
    [i \in 1..Len(kept) |->
        IF to_lowercase(kept[i]) = "croc" THEN "crocodile"
        ELSE to_lowercase(kept[i])]

\* C15: the normalizer returns the words of the line that are not fillers, in
\* their order, lowercased and with croc written out; its result never holds
\* an empty or filler token; a line without words gives Parse::Empty; and the
\* result is the one parse_input gives for that line in any World.
C15_NormalizerFilter ==
    /\ \A i \in 1..Len(result) : result[i] \notin Fillers \cup {"", " "}
    /\ norm_pc = "Words" =>
         /\ result = Normalized(split_whitespace(raw))
         /\ parse_input(raw) = [empty |-> FALSE, words |-> result]
    /\ norm_pc = "Empty" =>
         /\ \A i \in 1..Len(raw) : raw[i] = " "
         /\ parse_input(raw).empty

\* a line with a capitalised filler, whitespace, an abbreviation in capitals
\* and a plain word has been normalized
C15_Witness ==
    /\ norm_pc = "Words"
    /\ raw = <<"The", " ", "Croc", "steak">>
    /\ result = <<"crocodile", "steak">>

\* the steak rule, the key rule and the password rule, as commands in state w
SteakRule(w, input) ==
    /\ arm_of(input) \in {"cmd_give", "cmd_feed"}
    /\ noun1_of(input) = "steak" /\ noun2_of(input) = "crocodile"
    /\ Carried(w, "steak") /\ Present(w, "crocodile")

KeyRule(w, input) ==
    /\ \/ arm_of(input) = "cmd_open" /\ noun1_of(input) = "door"
       \/ arm_of(input) = "cmd_use"  /\ noun1_of(input) = "key"
    /\ w.location = "Outside"
    /\ Carried(w, "key")

PasswordRule(w, input) ==
    /\ \/ arm_of(input) = "cmd_say" /\ noun1_of(input) = PASSWORD
       \/ arm_of(input) = "cmd_say_password"
    /\ w.location = "Castle"

\* the rule that owns the exit of room r in direction d, FALSE for an exit
\* that no rule owns
OwningRule(w, input, r, d) ==
    \/ r = "Forest"  /\ d = "E" /\ SteakRule(w, input)
    \/ r = "Outside" /\ d = "E" /\ KeyRule(w, input)
    \/ r = "Castle"  /\ d = "S" /\ PasswordRule(w, input)

\* C16: a command changes the lock of an exit only if it is the rule that owns
\* the exit, performed in the exit's room, and then the lock goes from the
\* blocking kind the exit started with to Free, which happens once since Free
\* stays; the steak rule only ever applies in the Forest.
C16_MatchingRuleOnly ==
    Running =>
        \A input \in Lines :
            LET w2 == turn(world, input) IN
            /\ \A r \in RoomId : \A d \in Dir :
                 LockOf(w2.rooms, r, d) # LockOf(rooms, r, d) =>
                     /\ OwningRule(world, input, r, d)
                     /\ location = r
                     /\ LockOf(rooms, r, d) = LockOf(create_rooms, r, d)
                     /\ LockOf(rooms, r, d) \in {"Crocodile", "Key", "Password"}
                     /\ LockOf(w2.rooms, r, d) = "Free"
            /\ SteakRule(world, input) => location = "Forest"
            /\ \A r \in RoomId : \A d \in Dir :
                 (LockOf(create_rooms, r, d) = "Free"
                      \/ LockOf(create_rooms, r, d) = "NONE")
                     => LockOf(rooms, r, d) = LockOf(create_rooms, r, d)

\* the steak rule has cleared the Forest's exit, and the key is carried in the
\* Forest, where the key rule has no exit to clear
C16_Witness ==
    /\ location = "Forest"
    /\ Carried(world, "key")
    /\ LockOf(rooms, "Forest", "E") = "Free"
    /\ LockOf(rooms, "Outside", "E") = "Key"
    /\ ~game_over

\* C17: no unwrap() and no assert!() ever fails: the process has not died, the
\* location is one of the six rooms of the map, and wherever can_travel
\* reports Free, next_room gives a room of the map.
C17_NoInvariantViolation ==
    /\ ~panicked
    /\ location \in RoomId
    /\ DOMAIN rooms = RoomId
    /\ \A r \in RoomId : \A d \in Dir :
         can_travel(rooms[r], d) = "Free" => next_room(rooms[r], d) \in RoomId
    /\ Running => \A input \in Lines : ~turn(world, input).panicked

\* the player has gone through every exit of the map up to the Treasury
C17_Witness ==
    /\ location = "Treasury"
    /\ ~game_over
    /\ Carried(world, "sword")
    /\ Carried(world, "carrot")

\* the commands that end the game in state w: quit, and a take of the treasure
\* that finds it in the room
Ends(w, input) ==
    \/ arm_of(input) = "cmd_quit"
    \/ /\ arm_of(input) = "cmd_get"
       /\ noun1_of(input) = "treasure"
       /\ Present(w, "treasure")

\* C18: the loop runs exactly while game_over is false; game_over becomes true
\* only by quit or by a take that moved the treasure into the inventory; once
\* it is true nothing changes any more (so it is never reset).
C18_TerminalStates ==
    /\ [](Running <=> ~game_over)
    /\ [](Running =>
            \A input \in Lines :
                turn(world, input).game_over
                    <=> Ends(world, input))
    /\ [][/\ game_over => UNCHANGED vars
          /\ (~game_over /\ game_over')
                 => \/ UNCHANGED <<rooms, location, inventory, found_key>>
                    \/ /\ ObjectList_has(inventory', "treasure")
                       /\ ~ObjectList_has(inventory, "treasure")]_vars

\* the player quit inside the Castle, carrot in hand
C18_Witness ==
    /\ game_over
    /\ location = "Castle"
    /\ Carried(world, "carrot")
    /\ ~Carried(world, "treasure")

ForestOpen == LockOf(rooms, "Forest", "E") = "Free"

DoorOpen == LockOf(rooms, "Outside", "E") = "Free"

TreasuryOpen == LockOf(rooms, "Castle", "S") = "Free"

\* C19: the player never stands beyond an exit that is still blocked, and the
\* exits are cleared in order: Forest east, then Outside east, then Castle
\* south; the treasure is carried only with the key found and all three
\* cleared.
C19_PuzzleOrdering ==
    /\ location \in {"Outside", "Castle", "Treasury"} => ForestOpen
    /\ location \in {"Castle", "Treasury"} => DoorOpen
    /\ location = "Treasury" => TreasuryOpen
    /\ TreasuryOpen => DoorOpen
    /\ DoorOpen => ForestOpen
    /\ DoorOpen => found_key
    /\ Carried(world, "treasure") =>
         /\ game_over
         /\ found_key
         /\ ForestOpen /\ DoorOpen /\ TreasuryOpen

\* the game is won
C19_Witness ==
    /\ Carried(world, "treasure")
    /\ game_over
    /\ TreasuryOpen
    /\ ~Held(world, "key")

\* ---- a way to win from any state: the next command of a player who clears
\* the three exits in order and then takes the treasure

\* the direction word that leads from room cur towards room target
Toward(cur, target) ==
    CASE cur = "Mountain" -> "n"
      [] cur = "Lake"     -> "e"
      [] cur = "Forest"   -> IF target = "Mountain" THEN "s"
                             ELSE IF target = "Lake" THEN "w" ELSE "e"
      [] cur = "Outside"  -> IF target \in {"Castle", "Treasury"} THEN "e"
                             ELSE "w"
      [] cur = "Castle"   -> IF target = "Treasury" THEN "s" ELSE "w"
      [] cur = "Treasury" -> "n"

\* go and pick up the object called name, wherever it lies
Fetch(w, name) ==
    IF \E r \in RoomId : ObjectList_has(w.rooms[r].objects, name)
    THEN LET r == CHOOSE r \in RoomId : ObjectList_has(w.rooms[r].objects, name)
         IN  IF w.location = r THEN <<"get", name>>
             ELSE <<Toward(w.location, r)>>
    ELSE <<"look">>

\* do command at room r, going there first
DoAt(w, r, command) ==
    IF w.location = r THEN command ELSE <<Toward(w.location, r)>>

Hint(w) ==
    IF LockOf(w.rooms, "Forest", "E") # "Free"
    THEN IF Carried(w, "steak")
         THEN DoAt(w, "Forest", <<"give", "steak", "crocodile">>)
         ELSE Fetch(w, "steak")
    ELSE IF LockOf(w.rooms, "Outside", "E") # "Free"
    THEN IF ~w.found_key THEN DoAt(w, "Lake", <<"swim">>)
         ELSE IF Carried(w, "key") THEN DoAt(w, "Outside", <<"open", "door">>)
         ELSE Fetch(w, "key")
    ELSE IF LockOf(w.rooms, "Castle", "S") # "Free"
    THEN DoAt(w, "Castle", <<PASSWORD>>)
    ELSE Fetch(w, "treasure")

\* the World after at most n commands of that player
RECURSIVE Play(_, _)
Play(w, n) ==
    IF n = 0 \/ w.game_over \/ w.panicked THEN w
    ELSE Play(turn(w, Hint(w)), n - 1)

\* C20: from every state in which the game goes on there is a finite run of
\* commands that wins it: the commands of Hint, each one a line the player
\* can type, end with the treasure in the inventory and game_over set.
C20_NoDeadEnds ==
    Running =>
        /\ Hint(world) \in Lines
        /\ LET end == Play(world, MaxTurnsToWin) IN
             /\ end.game_over
             /\ Carried(end, "treasure")
             /\ ~end.panicked

\* the steak, the key and the sword all lie on the mountain, nothing is
\* cleared yet, and the player is by the lake
C20_Witness ==
    /\ location = "Lake"
    /\ found_key
    /\ ObjectList_has(rooms["Mountain"].objects, "steak")
    /\ ObjectList_has(rooms["Mountain"].objects, "key")
    /\ ObjectList_has(rooms["Mountain"].objects, "sword")
    /\ LockOf(rooms, "Forest", "E") = "Crocodile"
    /\ ~game_over

\* the containers that hold name: "Inventory" and the rooms
HoldersOf(w, name) ==
    {r \in RoomId : ObjectList_has(w.rooms[r].objects, name)}
        \cup (IF Carried(w, name) THEN {"Inventory"} ELSE {})

\* C21: the crocodile is in the Forest exactly while the Forest's east exit is
\* in the Crocodile lock state, and is in no other container; the parrot is
\* always in the Forest and nowhere else, the guard always in the Castle and
\* nowhere else; no command moves or removes the parrot or the guard.
C21_CreatureLockConsistency ==
    /\ ObjectList_has(rooms["Forest"].objects, "crocodile")
           <=> LockOf(rooms, "Forest", "E") = "Crocodile"
    /\ HoldersOf(world, "crocodile") \subseteq {"Forest"}
    /\ HoldersOf(world, "parrot") = {"Forest"}
    /\ HoldersOf(world, "guard") = {"Castle"}
    /\ Running =>
         \A input \in Lines :
             LET w2 == turn(world, input) IN
             /\ HoldersOf(w2, "parrot") = {"Forest"}
             /\ HoldersOf(w2, "guard") = {"Castle"}
             /\ HoldersOf(w2, "crocodile") \subseteq {"Forest"}

\* the crocodile has left with the steak, and the player, back from the
\* Castle, has fed the parrot
C21_Witness ==
    /\ HoldersOf(world, "crocodile") = {}
    /\ LockOf(rooms, "Forest", "E") = "Free"
    /\ LockOf(rooms, "Castle", "S") = "Password"
    /\ ~Held(world, "carrot")
    /\ location = "Mountain"
    /\ ~game_over

====
